---------------------------- MODULE Spec2Model ----------------------------
(***************************************************************************)
(* Model of helix::std::$function<Rt(Tp...)>, core/include/lang/function.hh:*)
(* a type-erased callable box that owns at most one heap-allocated          *)
(* Callable<T> adapter through the raw pointer `callable`.                  *)
(*                                                                          *)
(* The heap is modelled by address: `new` returns any address that holds no *)
(* live object (so a freed address can be handed out again) or throws;      *)
(* `delete p` ends the lifetime of whatever lives at p.  Using an address   *)
(* whose object has been deleted is undefined behaviour: the program either *)
(* aborts (crashed) or carries on with whatever garbage the memory holds.   *)
(*                                                                          *)
(* The second part models stringf, core/include/print.h: the loop that      *)
(* substitutes the placeholders of a format string, on character sequences. *)
(***************************************************************************)
EXTENDS Integers, FiniteSets, Sequences, TLC

\* ---- bounds of the model -------------------------------------------------
NumBoxes == 2       \* $function objects the client program declares
MaxFailures == 1    \* allocations that throw in one run
MaxCount == 2       \* largest value a wrapped counter functor reaches
MaxArg == 1         \* largest argument passed to an invocation
MaxPieces == 3      \* pieces a format string passed to stringf is made of
MaxFmtArgs == 2     \* arguments passed to stringf after the format string

NULL == 0
ADD_ONE == 1        \* the address of the free function add_one

Boxes == 1..NumBoxes
\* One heap address per box: a box owns at most one adapter, so `new` never
\* runs out of addresses; it fails only when it is made to throw.
Addrs == 1..NumBoxes
Args == 0..MaxArg

\* The callables a client wraps: a stateless lambda x -> x + 1, and a functor
\* that owns a counter, increments it on every call and returns it, and that
\* throws instead once the counter has reached MaxCount.
Lambda == [fn |-> "lambda", count |-> 0]
Counter == [fn |-> "counter", count |-> 0]
Callables == {Lambda, Counter}
\* The value inside Callable<Rt (*)(Tp...)>: the function pointer add_one
FptrCallable == [fn |-> "fptr", count |-> 0]
FuncPtrs == {NULL, ADD_ONE}
\* Every value an adapter can hold
Values == {Lambda, FptrCallable} \cup
          {[fn |-> "counter", count |-> n] : n \in 0..MaxCount}
\* The cell of an address that holds no live object
Dead == [live |-> FALSE, val |-> [fn |-> "none", count |-> 0]]

VARIABLES
    alive,        \* alive[b]: box b is within its lifetime
    callable,     \* callable[b]: the member `$callable *callable` of box b
    heap,         \* heap[a]: [live, val], the Callable<T> object at address a
    failures,     \* allocations that threw so far
    doubleFrees,  \* deletes of an address whose object was already deleted
    crashed,      \* the program aborted on undefined behaviour
    last,         \* the watched operation that ran last and how it ended
    watch,        \* what a run records: the operations whose runs are kept
                  \* in `last`, and "moved_from" for the set movedFrom
    movedFrom,    \* the boxes that were the source of a move and whose handle
                  \* has been null ever since
    sf            \* the call of stringf in progress (print.h)

vars == <<alive, callable, heap, failures, doubleFrees, crashed, last, watch,
          movedFrom, sf>>

\* The operations of $function
Ops == {"construct_default", "construct_callable", "construct_fptr",
        "construct_copy", "construct_move", "destroy", "assign_move",
        "assign_copy", "assign_callable", "assign_fptr", "reset", "bool",
        "invoke"}

\* `last` when the operation that ran last is not a watched one
Idle == [op |-> "none", box |-> 0, src |-> 0, arg |-> 0, old |-> NULL,
         res |-> "ok", ret |-> 0, news |-> 0, dels |-> 0]

\* `sf` while no call of stringf is in progress
NoCall == [pc |-> "off", fmt |-> <<>>, args |-> <<>>, EAS |-> <<>>,
           s |-> <<>>, i |-> 0, pos |-> 0]

\* ---- the heap ------------------------------------------------------------
\* The memory state an operation threads through its statements: news and
\* dels count the objects it allocated and deleted, ub is set once it has
\* used an address whose object is gone.
Cur == [heap |-> heap, failures |-> failures, doubleFrees |-> doubleFrees,
        news |-> 0, dels |-> 0, ub |-> FALSE]

\* `delete p`: a no-op on nullptr; otherwise runs the destructor of the object
\* at p and frees it.  Deleting an address whose object is already gone is
\* undefined behaviour.
DeleteP(m, p) ==
    IF p = NULL THEN m
    ELSE IF m.heap[p].live
         THEN [m EXCEPT !.heap[p] = Dead, !.dels = @ + 1]
         ELSE [m EXCEPT !.doubleFrees = @ + 1, !.dels = @ + 1, !.ub = TRUE]

\* `new Callable<T>(v)` returning address a
NewAt(m, a, v) ==
    [m EXCEPT !.heap[a] = [live |-> TRUE, val |-> v], !.news = @ + 1]

\* `new` throwing std::bad_alloc
NewFail(m) == [m EXCEPT !.failures = @ + 1]

\* The addresses the boxes other than b hold in their handles
HeldByOthers(b) == {callable[o] : o \in Boxes \ {b}} \ {NULL}

\* What `new` can do in memory state m while box b is being built or assigned:
\* return a free address, or throw (NULL).  Free addresses that no other box
\* holds a handle to are interchangeable, so the lowest stands for them all;
\* a free address that another box still holds (a stale handle) is a choice
\* of its own.
NewChoices(m, b) ==
    LET free == {a \in Addrs : ~m.heap[a].live}
        fresh == free \ HeldByOthers(b)
    IN  (free \cap HeldByOthers(b))
            \cup {a \in fresh : \A a2 \in fresh : a <= a2}
            \cup (IF m.failures < MaxFailures THEN {NULL} ELSE {})

\* Calling a virtual function of the object at p (invoke, clone): undefined
\* behaviour once that object has been deleted.
Deref(m, p) == [m EXCEPT !.ub = m.ub \/ ~m.heap[p].live]

\* The values a read of the object at p can see: the object's own value, or
\* any garbage once the object has been deleted.
ReadVals(m, p) == IF m.heap[p].live THEN {m.heap[p].val} ELSE Values

\* ---- how an operation ends -----------------------------------------------
\* An operation that ran into undefined behaviour either aborts the program
\* or completes.
Finish(op, b, o, x, cal, alv, m, res, ret) ==
    LET rec == [op |-> op, box |-> b, src |-> o, arg |-> x,
                old |-> callable[b], res |-> res, ret |-> ret,
                news |-> m.news, dels |-> m.dels]
        moved == IF op \in {"construct_move", "assign_move"} /\ o # b
                 THEN movedFrom \cup {o} ELSE movedFrom
        \* while movedFrom is recorded, only the operations on a moved-from
        \* box or with a moved-from source are kept in `last`
        kept == /\ op \in watch
                /\ "moved_from" \in watch
                      => (b \in movedFrom \/ o \in movedFrom)
    IN  /\ watch' = watch
        /\ sf' = sf
        /\ \/ /\ callable' = cal
              /\ alive' = alv
              /\ heap' = m.heap
              /\ failures' = m.failures
              /\ doubleFrees' = m.doubleFrees
              /\ crashed' = FALSE
              /\ last' = IF kept THEN rec ELSE Idle
              /\ movedFrom' = IF "moved_from" \in watch
                               THEN {bx \in moved : alv[bx] /\ cal[bx] = NULL}
                               ELSE movedFrom
           \/ /\ m.ub
              /\ crashed' = TRUE
              /\ last' = IF kept
                         THEN [rec EXCEPT !.res = "crash", !.ret = 0]
                         ELSE Idle
              /\ UNCHANGED <<callable, alive, heap, failures, doubleFrees,
                             movedFrom>>

\* No box has been constructed yet, the heap is empty; W is watched.
NoBoxes(W) ==
    /\ alive = [b \in Boxes |-> FALSE]
    /\ callable = [b \in Boxes |-> NULL]
    /\ heap = [a \in Addrs |-> Dead]
    /\ failures = 0
    /\ doubleFrees = 0
    /\ crashed = FALSE
    /\ last = Idle
    /\ watch = W
    /\ movedFrom = {}

InitWatching(W) == NoBoxes(W) /\ sf = NoCall

Init == InitWatching(Ops)

\* ---- $function::reset ----------------------------------------------------
\* if (callable) { delete callable; callable = nullptr; }
ResetMem(m, p) == IF p # NULL THEN DeleteP(m, p) ELSE m

Reset(b) ==
    /\ ~crashed /\ alive[b]
    /\ Finish("reset", b, 0, 0, [callable EXCEPT ![b] = NULL], alive,
              ResetMem(Cur, callable[b]), "ok", 0)

\* ---- constructors and destructor -----------------------------------------
\* $function() : callable(nullptr) {}
DefaultConstruct(b) ==
    /\ ~crashed /\ ~alive[b]
    /\ Finish("construct_default", b, 0, 0, [callable EXCEPT ![b] = NULL],
              [alive EXCEPT ![b] = TRUE], Cur, "ok", 0)

\* $function($function &&other) noexcept
MoveConstruct(b, o) ==
    /\ ~crashed /\ ~alive[b] /\ alive[o]
    /\ Finish("construct_move", b, o, 0,
              [callable EXCEPT ![b] = callable[o], ![o] = NULL],
              [alive EXCEPT ![b] = TRUE], Cur, "ok", 0)

\* Callable<T>::clone on the object at p: new Callable(callable), a copy of
\* the wrapped value v at address a, or std::bad_alloc (a = NULL)
Clone(m, p, v, a) ==
    IF a = NULL THEN NewFail(Deref(m, p)) ELSE NewAt(Deref(m, p), a, v)

\* The copy constructor without its test of other.callable:
\* callable(other.callable->clone()), a call through nullptr when the source
\* is empty
CopyConstructUnchecked(b, o) ==
    /\ ~crashed /\ ~alive[b] /\ alive[o]
    /\ LET p == callable[o] IN
       \E v \in (IF p = NULL THEN Values ELSE ReadVals(Cur, p)),
          a \in NewChoices(Cur, b) :
          LET m0 == IF p = NULL THEN [Cur EXCEPT !.ub = TRUE] ELSE Cur
              m1 == IF a = NULL THEN NewFail(IF p = NULL THEN m0
                                             ELSE Deref(m0, p))
                    ELSE NewAt(IF p = NULL THEN m0 ELSE Deref(m0, p), a, v)
          IN  IF a = NULL
              THEN Finish("construct_copy", b, o, 0, callable, alive, m1,
                          "AllocationFailure", 0)
              ELSE Finish("construct_copy", b, o, 0,
                          [callable EXCEPT ![b] = a],
                          [alive EXCEPT ![b] = TRUE], m1, "ok", 0)

\* $function(const $function &other)
CopyConstruct(b, o) ==
    /\ ~crashed /\ ~alive[b] /\ alive[o]
    /\ LET p == callable[o] IN
       IF p = NULL
       THEN Finish("construct_copy", b, o, 0, [callable EXCEPT ![b] = NULL],
                   [alive EXCEPT ![b] = TRUE], Cur, "ok", 0)
       ELSE \E a \in NewChoices(Cur, b), v \in ReadVals(Cur, p) :
               IF a = NULL
               THEN Finish("construct_copy", b, o, 0, callable, alive,
                           Clone(Cur, p, v, a), "AllocationFailure", 0)
               ELSE Finish("construct_copy", b, o, 0,
                           [callable EXCEPT ![b] = a],
                           [alive EXCEPT ![b] = TRUE],
                           Clone(Cur, p, v, a), "ok", 0)

\* template <typename T> $function(T $call_o)
ConstructCallable(b, c) ==
    /\ ~crashed /\ ~alive[b]
    /\ \E a \in NewChoices(Cur, b) :
          IF a = NULL
          THEN Finish("construct_callable", b, 0, 0, callable, alive,
                      NewFail(Cur), "AllocationFailure", 0)
          ELSE Finish("construct_callable", b, 0, 0,
                      [callable EXCEPT ![b] = a], [alive EXCEPT ![b] = TRUE],
                      NewAt(Cur, a, c), "ok", 0)

\* $function(Rt (*func)(Tp...)): func ? new Callable<...>(func) : nullptr
ConstructFptr(b, f) ==
    /\ ~crashed /\ ~alive[b]
    /\ IF f = NULL
       THEN Finish("construct_fptr", b, 0, 0, [callable EXCEPT ![b] = NULL],
                   [alive EXCEPT ![b] = TRUE], Cur, "ok", 0)
       ELSE \E a \in NewChoices(Cur, b) :
               IF a = NULL
               THEN Finish("construct_fptr", b, 0, 0, callable, alive,
                           NewFail(Cur), "AllocationFailure", 0)
               ELSE Finish("construct_fptr", b, 0, 0,
                           [callable EXCEPT ![b] = a],
                           [alive EXCEPT ![b] = TRUE],
                           NewAt(Cur, a, FptrCallable), "ok", 0)

\* ~$function() { reset(); }
Destroy(b) ==
    /\ ~crashed /\ alive[b]
    /\ Finish("destroy", b, 0, 0, [callable EXCEPT ![b] = NULL],
              [alive EXCEPT ![b] = FALSE], ResetMem(Cur, callable[b]), "ok", 0)

\* ---- assignment ----------------------------------------------------------
\* $function &operator=($function &&other) noexcept
MoveAssign(b, o) ==
    /\ ~crashed /\ alive[b] /\ alive[o]
    /\ IF b # o
       THEN Finish("assign_move", b, o, 0,
                   [callable EXCEPT ![b] = callable[o], ![o] = NULL], alive,
                   ResetMem(Cur, callable[b]), "ok", 0)
       ELSE Finish("assign_move", b, o, 0, callable, alive, Cur, "ok", 0)

\* operator=(const $function &) without its `if (this != &other)`
CopyAssignNoSelfCheck(b, o) ==
    /\ ~crashed /\ alive[b] /\ alive[o]
    /\ LET m1 == ResetMem(Cur, callable[b])
           p == IF b = o THEN NULL ELSE callable[o]
       IN  IF p = NULL
           THEN Finish("assign_copy", b, o, 0,
                       [callable EXCEPT ![b] = NULL], alive, m1, "ok", 0)
           ELSE \E a \in NewChoices(m1, b), v \in ReadVals(m1, p) :
                   IF a = NULL
                   THEN Finish("assign_copy", b, o, 0,
                               [callable EXCEPT ![b] = NULL], alive,
                               Clone(m1, p, v, a), "AllocationFailure", 0)
                   ELSE Finish("assign_copy", b, o, 0,
                               [callable EXCEPT ![b] = a], alive,
                               Clone(m1, p, v, a), "ok", 0)

\* $function &operator=(const $function &other)
CopyAssign(b, o) ==
    /\ ~crashed /\ alive[b] /\ alive[o]
    /\ IF b # o
       THEN LET m1 == ResetMem(Cur, callable[b])
                p == callable[o]
            IN  IF p = NULL
                THEN Finish("assign_copy", b, o, 0,
                            [callable EXCEPT ![b] = NULL], alive, m1, "ok", 0)
                ELSE \E a \in NewChoices(m1, b), v \in ReadVals(m1, p) :
                        IF a = NULL
                        THEN Finish("assign_copy", b, o, 0,
                                    [callable EXCEPT ![b] = NULL], alive,
                                    Clone(m1, p, v, a), "AllocationFailure", 0)
                        ELSE Finish("assign_copy", b, o, 0,
                                    [callable EXCEPT ![b] = a], alive,
                                    Clone(m1, p, v, a), "ok", 0)
       ELSE Finish("assign_copy", b, o, 0, callable, alive, Cur, "ok", 0)

\* operator=(T) nulling the handle between its delete and its new:
\* delete callable; callable = nullptr; callable = new Callable<...>(...);
AssignCallableClearsFirst(b, c) ==
    /\ ~crashed /\ alive[b]
    /\ LET m1 == DeleteP(Cur, callable[b]) IN
       \E a \in NewChoices(m1, b) :
          IF a = NULL
          THEN Finish("assign_callable", b, 0, 0,
                      [callable EXCEPT ![b] = NULL], alive,
                      NewFail(m1), "AllocationFailure", 0)
          ELSE Finish("assign_callable", b, 0, 0,
                      [callable EXCEPT ![b] = a], alive,
                      NewAt(m1, a, c), "ok", 0)

\* template <typename T> $function &operator=(T $call_o):
\* delete callable; callable = new Callable<decay_t<T>>(...);
AssignCallable(b, c) ==
    /\ ~crashed /\ alive[b]
    /\ LET m1 == DeleteP(Cur, callable[b]) IN
       \E a \in NewChoices(m1, b) :
          IF a = NULL
          THEN Finish("assign_callable", b, 0, 0, callable, alive,
                      NewFail(m1), "AllocationFailure", 0)
          ELSE Finish("assign_callable", b, 0, 0,
                      [callable EXCEPT ![b] = a], alive,
                      NewAt(m1, a, c), "ok", 0)

\* $function &operator=(Rt (*func)(Tp...)):
\* delete callable; callable = func ? new Callable<...>(func) : nullptr;
AssignFptr(b, f) ==
    /\ ~crashed /\ alive[b]
    /\ LET m1 == DeleteP(Cur, callable[b]) IN
       IF f = NULL
       THEN Finish("assign_fptr", b, 0, 0, [callable EXCEPT ![b] = NULL],
                   alive, m1, "ok", 0)
       ELSE \E a \in NewChoices(m1, b) :
               IF a = NULL
               THEN Finish("assign_fptr", b, 0, 0, callable, alive,
                           NewFail(m1), "AllocationFailure", 0)
               ELSE Finish("assign_fptr", b, 0, 0,
                           [callable EXCEPT ![b] = a], alive,
                           NewAt(m1, a, FptrCallable), "ok", 0)

\* ---- observers -----------------------------------------------------------
\* explicit operator bool() const noexcept { return callable != nullptr; }
Bool(b) ==
    /\ ~crashed /\ alive[b]
    /\ Finish("bool", b, 0, 0, callable, alive, Cur,
              IF callable[b] # NULL THEN "true" ELSE "false", 0)

\* Callable<T>::invoke calling the wrapped callable without the arguments it
\* was given
InvokeValDropsArgs(v, x) ==
    IF v.fn = "counter"
    THEN IF v.count < MaxCount
         THEN [val |-> [v EXCEPT !.count = @ + 1], ret |-> v.count + 1,
               raised |-> FALSE]
         ELSE [val |-> v, ret |-> 0, raised |-> TRUE]
    ELSE [val |-> v, ret |-> 0 + 1, raised |-> FALSE]

\* Callable<T>::invoke: return callable(forward<Tp>(args)...);
\* the wrapped value after the call, the value the call returns, and whether
\* the wrapped callable threw instead of returning
InvokeVal(v, x) ==
    IF v.fn = "counter"
    THEN IF v.count < MaxCount
         THEN [val |-> [v EXCEPT !.count = @ + 1], ret |-> v.count + 1,
               raised |-> FALSE]
         ELSE [val |-> v, ret |-> 0, raised |-> TRUE]
    ELSE [val |-> v, ret |-> x + 1, raised |-> FALSE]

\* How operator() ends once it has called through the handle: nothing in it
\* catches, so what the wrapped callable throws leaves operator() as it is.
InvokeRes(r) == IF r.raised THEN "CallableFailure" ELSE "ok"

\* callable->invoke(args...) through address p, the object there seen as v
InvokeMem(m, p, v, x) ==
    IF m.heap[p].live
    THEN [m EXCEPT !.heap[p].val = InvokeVal(v, x).val]
    ELSE Deref(m, p)

\* operator() without its `if (!callable) throw`: the call goes through the
\* handle whatever it is
InvokeUnchecked(b, x) ==
    /\ ~crashed /\ alive[b]
    /\ LET p == callable[b] IN
       \E v \in (IF p = NULL THEN Values ELSE ReadVals(Cur, p)) :
          Finish("invoke", b, 0, x, callable, alive,
                 IF p = NULL THEN [Cur EXCEPT !.ub = TRUE]
                 ELSE InvokeMem(Cur, p, v, x),
                 InvokeRes(InvokeVal(v, x)), InvokeVal(v, x).ret)

\* operator() catching what the wrapped callable throws and reporting the box
\* as unset instead
InvokeCatches(b, x) ==
    /\ ~crashed /\ alive[b]
    /\ LET p == callable[b] IN
       IF p = NULL
       THEN Finish("invoke", b, 0, x, callable, alive, Cur,
                   "EmptyInvocation", 0)
       ELSE \E v \in ReadVals(Cur, p) :
               Finish("invoke", b, 0, x, callable, alive,
                      InvokeMem(Cur, p, v, x),
                      IF InvokeVal(v, x).raised THEN "EmptyInvocation"
                      ELSE "ok",
                      InvokeVal(v, x).ret)

\* Rt operator()(Tp... args)
Invoke(b, x) ==
    /\ ~crashed /\ alive[b]
    /\ LET p == callable[b] IN
       IF p = NULL
       THEN Finish("invoke", b, 0, x, callable, alive, Cur,
                   "EmptyInvocation", 0)
       ELSE \E v \in ReadVals(Cur, p) :
               Finish("invoke", b, 0, x, callable, alive,
                      InvokeMem(Cur, p, v, x), InvokeRes(InvokeVal(v, x)),
                      InvokeVal(v, x).ret)

Next ==
    \/ \E b \in Boxes : DefaultConstruct(b)
    \/ \E b \in Boxes, c \in Callables : ConstructCallable(b, c)
    \/ \E b \in Boxes, f \in FuncPtrs : ConstructFptr(b, f)
    \/ \E b, o \in Boxes : CopyConstruct(b, o)
    \/ \E b, o \in Boxes : MoveConstruct(b, o)
    \/ \E b \in Boxes : Destroy(b)
    \/ \E b, o \in Boxes : MoveAssign(b, o)
    \/ \E b, o \in Boxes : CopyAssign(b, o)
    \/ \E b \in Boxes, c \in Callables : AssignCallable(b, c)
    \/ \E b \in Boxes, f \in FuncPtrs : AssignFptr(b, f)
    \/ \E b \in Boxes : Reset(b)
    \/ \E b \in Boxes : Bool(b)
    \/ \E b \in Boxes, x \in Args : Invoke(b, x)

\* Every operation is recorded.
Spec == Init /\ [][Next]_vars

\* The same program, recording the invocations only.
InitInvoke == InitWatching({"invoke"})
SpecInvoke == InitInvoke /\ [][Next]_vars

\* The same program, recording the copy and move assignments only.
InitAssign == InitWatching({"assign_copy", "assign_move"})
SpecAssign == InitAssign /\ [][Next]_vars

\* The same program, recording the constructions from a callable or a function
\* pointer and the invocations.
InitCall == InitWatching({"construct_callable", "construct_fptr", "invoke"})
SpecCall == InitCall /\ [][Next]_vars

\* The same program, recording which boxes have been moved from and the
\* operations of these kinds that are applied to a moved-from box.
InitMoved == InitWatching({"moved_from", "construct_copy", "assign_copy",
                           "construct_move", "assign_move", "reset",
                           "invoke", "assign_callable"})
SpecMoved == InitMoved /\ [][Next]_vars

\* ---- stringf (print.h) ---------------------------------------------------
\* A string is the sequence of its characters.  The placeholder is the four
\* characters of the literal "\\{\\}": backslash, {, backslash, }.
Placeholder == <<"\\", "{", "\\", "}">>
\* string::npos, the result of a find that found nothing
Npos == -1

\* The pieces format strings are made of, and the format strings themselves
Pieces == {Placeholder, <<"\\", "{">>, <<"\\", "}">>, <<"a">>}
RECURSIVE Concat(_)
Concat(ps) == IF ps = <<>> THEN <<>> ELSE Head(ps) \o Concat(Tail(ps))
FormatStrings ==
    {Concat(ps) : ps \in UNION {[1..n -> Pieces] : n \in 0..MaxPieces}}

\* The arguments: strings (some made of placeholder characters) and an int
ArgValues ==
    {[t |-> "string", v |-> w, n |-> 0] :
        w \in {<<>>, <<"a">>, <<"\\", "{">>, <<"\\", "}">>, Placeholder}}
    \cup {[t |-> "int", v |-> <<>>, n |-> 12]}
ArgLists == UNION {[1..n -> ArgValues] : n \in 0..MaxFmtArgs}

\* to_string(t): a string is streamed as it is, an int as its decimal digits
RECURSIVE Digits(_)
Digits(n) ==
    LET d == <<"0", "1", "2", "3", "4", "5", "6", "7", "8", "9">>[(n % 10) + 1]
    IN  IF n < 10 THEN <<d>> ELSE Digits(n \div 10) \o <<d>>
to_string(t) == IF t.t = "int" THEN Digits(t.n) ELSE t.v

\* s.find(pat, pos): the lowest index (from 0) at or after pos where pat
\* occurs in s, or npos
Find(s, pat, pos) ==
    LET hits == {i \in pos..(Len(s) - Len(pat)) :
                    SubSeq(s, i + 1, i + Len(pat)) = pat}
    IN  IF hits = {} THEN Npos
        ELSE CHOOSE i \in hits : \A j \in hits : i <= j

\* s.replace(pos, n, arg): the n characters from index pos replaced by arg
Replace(s, pos, n, arg) ==
    SubSeq(s, 1, pos) \o arg \o SubSeq(s, pos + n + 1, Len(s))

\* Entering stringf: the arguments are converted into EAS, pos = 0
StringfEnter ==
    /\ sf.pc = "call"
    /\ sf' = [sf EXCEPT !.pc = "loop",
                        !.EAS = [j \in 1..Len(sf.args) |->
                                    to_string(sf.args[j])],
                        !.s = sf.fmt, !.i = 0, !.pos = 0]
    /\ UNCHANGED <<alive, callable, heap, failures, doubleFrees, crashed,
                   last, watch, movedFrom>>

\* The loop body with `pos += arg.size()` left out
StringfIterNoAdvance ==
    /\ sf.pc = "loop" /\ sf.i < Len(sf.EAS)
    /\ LET arg == sf.EAS[sf.i + 1]
           found == Find(sf.s, Placeholder, sf.pos)
       IN  sf' = IF found = Npos
                 THEN [sf EXCEPT !.pc = "thrown", !.pos = found]
                 ELSE [sf EXCEPT !.s = Replace(sf.s, found, 4, arg),
                                 !.pos = found, !.i = @ + 1]
    /\ UNCHANGED <<alive, callable, heap, failures, doubleFrees, crashed,
                   last, watch, movedFrom>>

\* The loop body leaving the loop instead of throwing when find fails
StringfIterBreaks ==
    /\ sf.pc = "loop" /\ sf.i < Len(sf.EAS)
    /\ LET arg == sf.EAS[sf.i + 1]
           found == Find(sf.s, Placeholder, sf.pos)
       IN  sf' = IF found = Npos
                 THEN [sf EXCEPT !.pc = "returned", !.pos = found]
                 ELSE [sf EXCEPT !.s = Replace(sf.s, found, 4, arg),
                                 !.pos = found + Len(arg), !.i = @ + 1]
    /\ UNCHANGED <<alive, callable, heap, failures, doubleFrees, crashed,
                   last, watch, movedFrom>>

\* One iteration of `for (auto &&arg : EAS)`:
\* pos = s.find("\\{\\}", pos); if (pos == npos) throw runtime_error(...);
\* s.replace(pos, 4, arg); pos += arg.size();
StringfIter ==
    /\ sf.pc = "loop" /\ sf.i < Len(sf.EAS)
    /\ LET arg == sf.EAS[sf.i + 1]
           found == Find(sf.s, Placeholder, sf.pos)
       IN  sf' = IF found = Npos
                 THEN [sf EXCEPT !.pc = "thrown", !.pos = found]
                 ELSE [sf EXCEPT !.s = Replace(sf.s, found, 4, arg),
                                 !.pos = found + Len(arg), !.i = @ + 1]
    /\ UNCHANGED <<alive, callable, heap, failures, doubleFrees, crashed,
                   last, watch, movedFrom>>

\* return s; once the loop has gone through EAS
StringfReturn ==
    /\ sf.pc = "loop" /\ sf.i = Len(sf.EAS)
    /\ sf' = [sf EXCEPT !.pc = "returned"]
    /\ UNCHANGED <<alive, callable, heap, failures, doubleFrees, crashed,
                   last, watch, movedFrom>>

NextStringf == StringfEnter \/ StringfIter \/ StringfReturn

\* A call stringf(fmt, args...) for every format string and argument list
InitStringf ==
    /\ NoBoxes({})
    /\ \E f \in FormatStrings, a \in ArgLists :
          sf = [NoCall EXCEPT !.pc = "call", !.fmt = f, !.args = a]
SpecStringf == InitStringf /\ [][NextStringf]_vars

\* ---- C1 ------------------------------------------------------------------
\* C1: invoking a box whose handle is null (however it became null) always
\* fails with EmptyInvocation: nothing is forwarded (no wrapped value changes,
\* nothing is dereferenced, the program does not crash) and the box is still
\* empty afterwards.
EmptyInvocationFails ==
    [][(last'.op = "invoke" /\ callable[last'.box] = NULL)
         => /\ last'.res = "EmptyInvocation"
            /\ ~crashed'
            /\ heap' = heap
            /\ callable' = callable
            /\ callable'[last'.box] = NULL]_vars

\* An empty box was invoked while another box holds an adapter.
EmptyInvocationWitness ==
    /\ last.op = "invoke"
    /\ last.res = "EmptyInvocation"
    /\ callable[last.box] = NULL
    /\ \E o \in Boxes : alive[o] /\ callable[o] # NULL

\* ---- C2 ------------------------------------------------------------------
\* C2: after move construction or move assignment from box o into a distinct
\* box b, o is empty and b holds the very object o held (nothing allocated,
\* the object untouched); on move assignment the content b held before is
\* released exactly once.
MoveTransfersOwnership ==
    [][(last'.op \in {"construct_move", "assign_move"}
            /\ last'.box # last'.src)
         => LET b == last'.box
                p == callable[last'.src]
                q == callable[last'.box]
            IN  /\ ~crashed'
                /\ callable'[last'.src] = NULL
                /\ callable'[b] = p
                /\ last'.news = 0
                /\ p # NULL => heap'[p] = heap[p]
                /\ (last'.op = "assign_move" /\ q # NULL)
                      => /\ heap[q].live
                         /\ last'.dels = 1
                         /\ doubleFrees' = doubleFrees
                         /\ ~heap'[q].live]_vars

\* ---- C3 ------------------------------------------------------------------
\* C3: in every reachable state no live adapter is held by two boxes.
NoSharedAdapter ==
    \A b1, b2 \in Boxes :
        (b1 # b2 /\ alive[b1] /\ alive[b2] /\ callable[b1] # NULL
             /\ heap[callable[b1]].live)
            => callable[b1] # callable[b2]

\* ---- C4 ------------------------------------------------------------------
\* C4: in every reachable state each box is empty or its handle refers to a
\* live adapter, never to one that has been released.
HandleNullOrLive ==
    \A b \in Boxes :
        alive[b] => (callable[b] = NULL \/ heap[callable[b]].live)

\* ---- C5 ------------------------------------------------------------------
\* C5: when the allocation or the duplication fails during an assignment to a
\* box that holds content, the box still holds that content, live and
\* unchanged.
FailedAssignmentKeepsContent ==
    [][(last'.op \in {"assign_copy", "assign_callable", "assign_fptr"}
            /\ last'.res = "AllocationFailure"
            /\ callable[last'.box] # NULL
            /\ heap[callable[last'.box]].live)
         => /\ callable'[last'.box] = callable[last'.box]
            /\ heap'[callable[last'.box]] = heap[callable[last'.box]]
            /\ last'.dels = 0]_vars

\* ---- C6 ------------------------------------------------------------------
\* C6: once every box has been destroyed, every adapter that was allocated
\* has been released exactly once: none is still live, none was deleted twice.
AllReleasedExactlyOnce ==
    ((\A b \in Boxes : ~alive[b]) /\ ~crashed)
        => /\ \A a \in Addrs : ~heap[a].live
           /\ doubleFrees = 0

\* ---- C7 ------------------------------------------------------------------
\* C7: a completed copy (construction or assignment) is empty exactly when
\* its source is; from a non-empty source it owns a newly allocated adapter,
\* distinct from the source's, holding a copy of the source's wrapped value;
\* and invoking a box never changes the adapter another box holds.
CopyIsIndependent ==
    [][/\ (last'.op \in {"construct_copy", "assign_copy"}
              /\ last'.box # last'.src /\ last'.res = "ok")
          => LET p == callable[last'.src]
                 q == callable'[last'.box]
             IN  /\ (q = NULL) <=> (p = NULL)
                 /\ p # NULL
                       => /\ last'.news = 1
                          /\ q # p
                          /\ heap[p].live
                          /\ heap'[p] = heap[p]
                          /\ heap'[q] = [live |-> TRUE, val |-> heap[p].val]
       /\ (last'.op = "invoke" /\ last'.res = "ok")
          => \A o \in Boxes \ {last'.box} :
                (alive[o] /\ callable[o] # NULL)
                    => heap'[callable[o]] = heap[callable[o]]]_vars

\* ---- C8 ------------------------------------------------------------------
\* C8: a successful assignment of callable c to a non-empty box leaves the
\* box holding a newly allocated adapter that wraps c, and the content it
\* held before is released exactly once.
ReassignReleasesOnce ==
    [][\A b \in Boxes, c \in Callables :
          (AssignCallable(b, c) /\ last'.op = "assign_callable"
               /\ last'.res = "ok" /\ callable[b] # NULL)
             => /\ callable'[b] # NULL
                /\ heap'[callable'[b]] = [live |-> TRUE, val |-> c]
                /\ last'.news = 1
                /\ heap[callable[b]].live
                /\ last'.dels = 1
                /\ doubleFrees' = doubleFrees]_vars

\* ---- C9 ------------------------------------------------------------------
\* C9: copy or move assignment of a box to itself is a no-op: the box holds
\* the same handle, the heap is unchanged, nothing is deleted and nothing is
\* allocated.
SelfAssignmentNoOp ==
    [][(last'.op \in {"assign_copy", "assign_move"} /\ last'.box = last'.src)
         => /\ callable' = callable
            /\ heap' = heap
            /\ alive' = alive
            /\ doubleFrees' = doubleFrees
            /\ failures' = failures
            /\ last'.news = 0 /\ last'.dels = 0
            /\ last'.res = "ok" /\ ~crashed']_vars

\* A box holding a live adapter was copy-assigned to itself.
SelfAssignmentWitness ==
    /\ last.op = "assign_copy"
    /\ last.box = last.src
    /\ last.old # NULL
    /\ callable[last.box] = last.old
    /\ heap[last.old].live

\* ---- C10 -----------------------------------------------------------------
\* C10: after reset() the box is empty and the content it held, if any, has
\* been released exactly once; reset() on an empty box releases nothing, so
\* a second reset() changes nothing.
ResetReleasesOnce ==
    [][last'.op = "reset"
         => LET q == callable[last'.box]
            IN  /\ ~crashed'
                /\ callable'[last'.box] = NULL
                /\ q # NULL
                      => /\ heap[q].live
                         /\ ~heap'[q].live
                         /\ last'.dels = 1
                         /\ doubleFrees' = doubleFrees
                /\ q = NULL
                      => /\ heap' = heap
                         /\ last'.dels = 0
                         /\ doubleFrees' = doubleFrees]_vars

\* ---- C11 -----------------------------------------------------------------
\* What calling the client's callable c directly with argument x returns:
\* the lambda and add_one return x + 1, the counter functor its next count.
DirectCall(c, x) == IF c.fn = "counter" THEN c.count + 1 ELSE x + 1
\* Whether calling c directly throws: the counter functor at its limit does.
DirectCallThrows(c) == c.fn = "counter" /\ c.count >= MaxCount

\* C11: a box constructed from a lambda, a functor or a non-null function
\* pointer c holds a live adapter that wraps c itself, and invoking a box that
\* holds a live adapter whose callable returns gives back exactly what that
\* callable returns for the arguments passed (x + 1 for x -> x + 1), the call
\* having run on the wrapped object itself.
WrappedCallReturnsDirectResult ==
    [][/\ \A c \in Callables :
             (/\ last'.op = "construct_callable" /\ last'.res = "ok"
              /\ ConstructCallable(last'.box, c))
                => heap'[callable'[last'.box]] = [live |-> TRUE, val |-> c]
       /\ (/\ last'.op = "construct_fptr" /\ last'.res = "ok"
           /\ ConstructFptr(last'.box, ADD_ONE))
             => heap'[callable'[last'.box]]
                    = [live |-> TRUE, val |-> FptrCallable]
       /\ (/\ last'.op = "invoke"
           /\ callable[last'.box] # NULL
           /\ heap[callable[last'.box]].live
           /\ ~DirectCallThrows(heap[callable[last'.box]].val))
             => LET p == callable[last'.box]
                    c == heap[p].val
                IN  /\ ~crashed'
                    /\ last'.res = "ok"
                    /\ last'.ret = DirectCall(c, last'.arg)
                    /\ callable' = callable
                    /\ heap'[p].live
                    /\ heap'[p].val.fn = c.fn
                    /\ c.fn = "counter"
                          => heap'[p].val.count = last'.ret]_vars

\* A box holding the lambda x -> x + 1 was invoked with the largest argument
\* and returned that argument plus one.
WrappedCallWitness ==
    /\ last.op = "invoke"
    /\ last.res = "ok"
    /\ last.arg = MaxArg
    /\ last.ret = MaxArg + 1
    /\ heap[callable[last.box]] = [live |-> TRUE, val |-> Lambda]

\* ---- C12 -----------------------------------------------------------------
\* C12: constructing a box from, or assigning to a box, a function pointer f
\* that completes leaves the box empty when f is null and holding a newly
\* allocated adapter that wraps f when f is non-null; on assignment the
\* content the box held before is a live adapter that is released exactly
\* once, whether f is null or not.
FptrSetsAndReleasesOnce ==
    [][\A f \in FuncPtrs :
          (/\ last'.op \in {"construct_fptr", "assign_fptr"}
           /\ last'.res = "ok"
           /\ \/ ConstructFptr(last'.box, f)
              \/ AssignFptr(last'.box, f))
             => LET b == last'.box IN
                /\ f = NULL => (callable'[b] = NULL /\ last'.news = 0)
                /\ f # NULL
                      => /\ callable'[b] # NULL
                         /\ heap'[callable'[b]]
                                = [live |-> TRUE, val |-> FptrCallable]
                         /\ last'.news = 1
                /\ last'.op = "construct_fptr" => last'.dels = 0
                /\ (last'.op = "assign_fptr" /\ callable[b] = NULL)
                      => last'.dels = 0
                /\ (last'.op = "assign_fptr" /\ callable[b] # NULL)
                      => /\ heap[callable[b]].live
                         /\ last'.dels = 1
                         /\ doubleFrees' = doubleFrees]_vars

\* ---- C13 -----------------------------------------------------------------
\* C13: when a box holding a live adapter is invoked and the wrapped callable
\* throws, the invocation ends with that failure (it is not turned into
\* EmptyInvocation or into a normal return, and nothing undefined happens),
\* and every box, the invoked one included, still holds the handle it held,
\* to an adapter that is still live.
CallableFailurePropagates ==
    [][(/\ last'.op = "invoke"
        /\ callable[last'.box] # NULL
        /\ heap[callable[last'.box]].live
        /\ DirectCallThrows(heap[callable[last'.box]].val))
          => /\ ~crashed'
             /\ last'.res = "CallableFailure"
             /\ callable' = callable
             /\ alive' = alive
             /\ heap'[callable[last'.box]].live
             /\ heap'[callable[last'.box]].val.fn = "counter"
             /\ doubleFrees' = doubleFrees]_vars

\* A box holding a live counter functor that has reached its limit was
\* invoked and the invocation ended with the functor's failure.
CallableFailureWitness ==
    /\ last.op = "invoke"
    /\ last.res = "CallableFailure"
    /\ callable[last.box] # NULL
    /\ heap[callable[last.box]].live
    /\ heap[callable[last.box]].val = [fn |-> "counter", count |-> MaxCount]

\* ---- C14 -----------------------------------------------------------------
\* The state of a box as its emptiness test reports it
Holding(b) == alive[b] /\ callable[b] # NULL
\* Box b is Holding before the step and Empty or destroyed after it
LeavesHolding(b) ==
    /\ Holding(b)
    /\ ~crashed'
    /\ ~alive'[b] \/ callable'[b] = NULL

CopyLeavesSourceUnchanged ==
    [][(/\ last'.op \in {"construct_copy", "assign_copy"}
        /\ last'.box # last'.src
        /\ callable[last'.src] # NULL => heap[callable[last'.src]].live
        /\ ~crashed')
          => LET p == callable[last'.src] IN
             /\ alive'[last'.src] = alive[last'.src]
             /\ callable'[last'.src] = p
             /\ p # NULL => heap'[p] = heap[p]]_vars

\* ---- C17 -----------------------------------------------------------------
\* The indexes (from 0) at which the placeholder occurs in s; two occurrences
\* never overlap, no proper suffix of the placeholder being a prefix of it
Occurrences(s) ==
    {i \in 0..(Len(s) - Len(Placeholder)) :
        SubSeq(s, i + 1, i + Len(Placeholder)) = Placeholder}
\* The n-th occurrence from the left, n from 1
NthOccurrence(s, n) ==
    CHOOSE i \in Occurrences(s) :
        Cardinality({j \in Occurrences(s) : j < i}) = n - 1
\* Where the text after the n-th occurrence starts (0 for n = 0)
AfterOccurrence(s, n) ==
    IF n = 0 THEN 0 ELSE NthOccurrence(s, n) + Len(Placeholder)
\* s up to the end of its n-th occurrence, the first n occurrences replaced
\* by txt[1] .. txt[n]
RECURSIVE SubstitutedUpTo(_, _, _)
SubstitutedUpTo(s, txt, n) ==
    IF n = 0 THEN <<>>
    ELSE SubstitutedUpTo(s, txt, n - 1)
            \o SubSeq(s, AfterOccurrence(s, n - 1) + 1, NthOccurrence(s, n))
            \o txt[n]
\* s with its first Len(txt) occurrences replaced, the rest of s as it is
FirstSubstituted(s, txt) ==
    SubstitutedUpTo(s, txt, Len(txt))
        \o SubSeq(s, AfterOccurrence(s, Len(txt)) + 1, Len(s))

\* C17: a call stringf(fmt, a1 .. ak) whose fmt has at least k placeholder
\* occurrences returns, and what it returns is fmt with its first k
\* occurrences, as they stand in fmt itself from left to right, replaced by
\* to_string(a1) .. to_string(ak): no text that was inserted is substituted
\* again and the occurrences after the k-th stay as they are.
StringfSubstitutesFirstK ==
    (/\ sf.pc \in {"returned", "thrown"}
     /\ Cardinality(Occurrences(sf.fmt)) >= Len(sf.args))
       => /\ sf.pc = "returned"
          /\ sf.s = FirstSubstituted(sf.fmt,
                        [j \in 1..Len(sf.args) |-> to_string(sf.args[j])])

\* stringf returned for a format with two placeholders around the text \}
\* and a first argument \{: the placeholder that the inserted \{ forms with
\* the \} after it is still in the result, and the int 12 went in as "12".
StringfSubstitutesWitness ==
    /\ sf.pc = "returned"
    /\ sf.fmt = Placeholder \o <<"\\", "}">> \o Placeholder
    /\ Len(sf.args) = 2
    /\ sf.args[1] = [t |-> "string", v |-> <<"\\", "{">>, n |-> 0]
    /\ sf.args[2] = [t |-> "int", v |-> <<>>, n |-> 12]
    /\ sf.s = Placeholder \o <<"1", "2">>

\* ---- C18 -----------------------------------------------------------------
RECURSIVE TotalLen(_)
TotalLen(txt) == IF txt = <<>> THEN 0 ELSE Len(Head(txt)) + TotalLen(Tail(txt))

\* C18: a call stringf(fmt, a1 .. ak) ends with the runtime error exactly
\* when fmt has fewer than k placeholder occurrences (what the scan finds
\* after the position reached by the substitutions made so far is what fmt
\* itself has left), having used up every occurrence fmt has; and when it
\* returns, every argument has been put in: k placeholders are gone and the
\* text of all k arguments is in the result.
StringfThrowsIffTooFew ==
    sf.pc \in {"returned", "thrown"}
       => LET k == Len(sf.args)
              n == Cardinality(Occurrences(sf.fmt))
          IN  /\ (sf.pc = "thrown") <=> (n < k)
              /\ sf.pc = "thrown" => (sf.i = n /\ sf.pos = Npos)
              /\ sf.pc = "returned"
                    => /\ sf.i = k
                       /\ Len(sf.s) = Len(sf.fmt) - k * Len(Placeholder)
                                          + TotalLen(sf.EAS)
                       /\ Cardinality(Occurrences(sf.fmt)) - k
                              <= Cardinality(Occurrences(sf.s))

\* stringf threw on its second argument: the format has one placeholder, and
\* the placeholder that the first argument put in its place did not count.
StringfThrowsWitness ==
    /\ sf.pc = "thrown"
    /\ Len(sf.args) = 2
    /\ sf.args[1] = [t |-> "string", v |-> Placeholder, n |-> 0]
    /\ Cardinality(Occurrences(sf.fmt)) = 1
    /\ sf.i = 1
    /\ Cardinality(Occurrences(sf.s)) = 1

=============================================================================
